---- MODULE Spec2Model ----
(***************************************************************************)
(* The three views of the marketing-content generator's browser client:    *)
(* ContentGenerator (src/unnamed/part_000), TrendsViewer and               *)
(* SentimentAnalyzer (src/Frontend/components/header.tsx), over the HTTP   *)
(* client adapter of src/Frontend/lib/api.ts.                              *)
(*                                                                         *)
(* A view is a React function component.  Its useState cells are the       *)
(* view's state; a handler is a closure made by one run of the component   *)
(* function and reads the values that run saw; a setter only schedules the *)
(* next run.  The model keeps both: the state cells (generator,            *)
(* trendsViewer, analyzer) and `committed`, what the last committed run    *)
(* handed to the handlers and the DOM (the closure's prompt, file and      *)
(* content, and the disabled attribute of the submit control).  When the   *)
(* next run commits is the framework's choice, not the repository's, so    *)
(* Render is an action of its own.                                         *)
(*                                                                         *)
(* The router (src/unnamed/part_001) mounts exactly one view per route;    *)
(* `route` is the route the tab shows.                                     *)
(*                                                                         *)
(* JavaScript's nullable values are options: <<>> is null/undefined and    *)
(* <<v>> is the value v.  Text the code trims is a sequence of characters. *)
(* A sentiment score is a fixed-point number in units of 1/One.            *)
(***************************************************************************)
EXTENDS Integers, Sequences, FiniteSets

VARIABLES
  route,         \* the route the tab shows: which view is mounted
  generator,     \* ContentGenerator's useState cells
  trendsViewer,  \* TrendsViewer's useState cells
  analyzer,      \* SentimentAnalyzer's useState cells
  committed,     \* what the last committed render gave the handlers and the DOM
  chains,        \* the async chains suspended at an await
  mountEffect,   \* TrendsViewer's mount effect has not run yet
  toast,         \* the notification shown last
  nActions,      \* user actions so far that ask for a request (submit, refresh, mount)
  nRequests,     \* HTTP requests issued so far
  okLog,         \* history: ids of the chains that resolved with a response, in order
  delivered      \* history: the response the latest of them got

vars == <<route, generator, trendsViewer, analyzer, committed, chains,
          mountEffect, toast, nActions, nRequests, okLog, delivered>>

(***************************************************************************)
(* Bounds                                                                  *)
(***************************************************************************)
\* User actions that ask for a request (submit, refresh, mount) per run.
MaxActions == 2

(***************************************************************************)
(* Options                                                                 *)
(***************************************************************************)
None == <<>>
Some(v) == <<v>>
IsNull(o) == o = <<>>
Val(o) == o[1]

(***************************************************************************)
(* Inputs                                                                  *)
(***************************************************************************)
Routes == {"/generate", "/trends", "/analyze"}

\* Characters String.prototype.trim strips, as far as the inputs use them.
WhiteSpace == {" ", "\t", "\n"}

\* Text a user can have typed into a Textarea.
Texts == {<<>>, <<" ", "\n">>, <<" ", "b", " ">>}

MaxFileSize == 5 * 1024 * 1024

allowedTypes == {"text/csv", "application/pdf", "application/vnd.ms-excel"}

\* Files a user can pick in the file dialog.
SelectableFiles ==
  { [name |-> "a.csv",   size |-> MaxFileSize,     type |-> "text/csv"],
    [name |-> "big.pdf", size |-> MaxFileSize + 1, type |-> "application/pdf"],
    [name |-> "d.png",   size |-> 1024,            type |-> "image/png"],
    [name |-> "e.txt",   size |-> MaxFileSize + 1, type |-> ""] }

\* GenerateResponse bodies the backend can return.
GenerateResponses ==
  [content : {"", "Get fit today!"}, image_url : {None, Some("http://img/1.png")}]

\* TrendsResponse bodies.
TrendsResponses ==
  { [trends |-> <<>>],
    [trends |-> <<"AI">>],
    [trends |-> <<"Video", "AI", "Video">>] }

\* Fixed-point unit of a sentiment score: the score s stands for s / One.
One == 10

\* AnalyzeResponse bodies; 15 is 1.5, a score outside [-1, 1].
AnalyzeResponses ==
  [sentiment : {-One, 0, 8, One, 15},
   sentiment_label : {"positive", "negative", "neutral", "mixed", ""}]

\* What a rejected promise of the generation chain carries.  `kind` is the
\* environment's cause; the code sees isError (instanceof Error) and message.
RequestErrors ==
  { [kind |-> "network", isError |-> TRUE,
     message |-> <<"Network", "Error">>],
    [kind |-> "network", isError |-> TRUE,
     message |-> <<"connect", "ECONNREFUSED", "127.0.0.1:8000">>],
    [kind |-> "http", isError |-> TRUE,
     message |-> <<"Request", "failed", "with", "status", "code", "500">>],
    [kind |-> "malformed", isError |-> TRUE,
     message |-> <<"Cannot", "read", "properties", "of", "null">>] }

\* reader.onerror rejects with the ProgressEvent, which is no Error.
FileReadError == [kind |-> "fileread", isError |-> FALSE, message |-> <<>>]

(***************************************************************************)
(* Pure functions                                                          *)
(***************************************************************************)
RECURSIVE TrimStart(_)
TrimStart(s) ==
  IF s # <<>> /\ Head(s) \in WhiteSpace THEN TrimStart(Tail(s)) ELSE s

RECURSIVE TrimEnd(_)
TrimEnd(s) ==
  IF s # <<>> /\ s[Len(s)] \in WhiteSpace
  THEN TrimEnd(SubSeq(s, 1, Len(s) - 1))
  ELSE s

\* String.prototype.trim
Trim(s) == TrimEnd(TrimStart(s))

\* Mutant of IsBlank: the test without trim().
IsBlank_NoTrim(s) == s = <<>>

\* !text.trim(): the empty string is falsy.
IsBlank(s) == Trim(s) = <<>>

\* Mutant of FileTooLarge: the limit written as 50 MiB.
FileTooLarge_WrongLimit(f) == f.size > 50 * 1024 * 1024

\* selectedFile.size > 5 * 1024 * 1024
FileTooLarge(f) == f.size > MaxFileSize

\* Mutant of InvalidFileType: only a file of unknown type is refused.
InvalidFileType_UnknownOnly(f) == f.type = ""

\* !allowedTypes.includes(selectedFile.type)
InvalidFileType(f) == f.type \notin allowedTypes

\* FileReader.readAsDataURL: "data:<type>;base64,<the file's bytes>".
fileToBase64(f) == [mediatype |-> f.type, encoding |-> "base64",
                    bytesOf |-> f.name, nBytes |-> f.size]

\* message.includes("ECONNREFUSED"), on a message cut into words.
Includes(message, word) == \E i \in 1..Len(message) : message[i] = word

\* Mutant of isNetworkError: the ECONNREFUSED test left out.
isNetworkError_ExactOnly(error) ==
  /\ error.isError
  /\ error.message = <<"Network", "Error">>

\* error instanceof Error && (message === "Network Error" || includes(...))
isNetworkError(error) ==
  /\ error.isError
  /\ \/ error.message = <<"Network", "Error">>
     \/ Includes(error.message, "ECONNREFUSED")

(***************************************************************************)
(* Notifications (useToast)                                                *)
(***************************************************************************)
Toast(title, description, variant) ==
  [title |-> title, description |-> description, variant |-> variant,
   count |-> 0, label |-> ""]

NoToast == Toast("", "", "")

FileTooLargeToast ==
  Toast("File too large", "Please select a file smaller than 5MB", "destructive")

InvalidFileTypeToast ==
  Toast("Invalid file type", "Please select a CSV or PDF file", "destructive")

PromptRequiredToast ==
  Toast("Prompt required", "Please enter a prompt to generate content", "destructive")

GeneratedToast ==
  Toast("Content generated successfully", "Your marketing content has been created",
        "default")

CannotConnect ==
  "Cannot connect to backend. Make sure FastAPI server is running on localhost:8000"

FailedToGenerate == "Failed to generate content. Please try again."

GenerationFailedToast(error) ==
  Toast("Generation failed",
        IF isNetworkError(error) THEN CannotConnect ELSE FailedToGenerate,
        "destructive")

\* description: `Loaded ${response.trends.length} marketing trends`
TrendsUpdatedToast(response) ==
  [Toast("Trends updated", "Loaded ${count} marketing trends", "default")
     EXCEPT !.count = Len(response.trends)]

TrendsFailedToast ==
  Toast("Failed to fetch trends", "Unable to load marketing trends. Please try again.",
        "destructive")

ContentRequiredToast ==
  Toast("Content required", "Please enter content to analyze", "destructive")

\* description: `Content sentiment: ${response.sentiment_label}`
AnalysisCompleteToast(response) ==
  [Toast("Analysis complete", "Content sentiment: ${label}", "default")
     EXCEPT !.label = response.sentiment_label]

AnalysisFailedToast ==
  Toast("Analysis failed", "Failed to analyze sentiment. Please try again.",
        "destructive")

(***************************************************************************)
(* State                                                                   *)
(***************************************************************************)
\* ContentGenerator's useState cells as first rendered.
GeneratorInit ==
  [prompt |-> <<>>, file |-> None, generatedContent |-> "", imageUrl |-> None,
   isLoading |-> FALSE]

\* TrendsViewer's useState cells as first rendered.
TrendsViewerInit == [trends |-> <<>>, isLoading |-> FALSE]

\* SentimentAnalyzer's useState cells as first rendered.
AnalyzerInit ==
  [content |-> <<>>, sentiment |-> None, sentimentLabel |-> None,
   isLoading |-> FALSE]

\* isLoading of the mounted view.
MountedIsLoading(r, g, t, a) ==
  IF r = "/generate" THEN g.isLoading
  ELSE IF r = "/trends" THEN t.isLoading
  ELSE a.isLoading

\* What one run of the mounted component hands to its handlers and the DOM.
Snapshot(r, g, t, a) ==
  [prompt |-> g.prompt, file |-> g.file, content |-> a.content,
   isLoading |-> MountedIsLoading(r, g, t, a)]

Init ==
  /\ route \in Routes
  /\ generator = GeneratorInit
  /\ trendsViewer = TrendsViewerInit
  /\ analyzer = AnalyzerInit
  /\ committed = Snapshot(route, generator, trendsViewer, analyzer)
  /\ chains = {}
  /\ mountEffect = (route = "/trends")
  /\ toast = NoToast
  /\ nActions = 0
  /\ nRequests = 0
  /\ okLog = <<>>
  /\ delivered = None

\* The component function runs again with the current state and commits.
Render ==
  /\ committed # Snapshot(route, generator, trendsViewer, analyzer)
  /\ committed' = Snapshot(route, generator, trendsViewer, analyzer)
  /\ UNCHANGED <<route, generator, trendsViewer, analyzer, chains, mountEffect,
                 toast, nActions, nRequests, okLog, delivered>>

(***************************************************************************)
(* Generation view                                                         *)
(***************************************************************************)
\* onChange of the prompt Textarea: setPrompt(e.target.value).
setPrompt(value) ==
  /\ route = "/generate"
  /\ generator' = [generator EXCEPT !.prompt = value]
  /\ UNCHANGED <<route, trendsViewer, analyzer, committed, chains, mountEffect,
                 toast, nActions, nRequests, okLog, delivered>>

\* Mutant of handleFileUpload: a rejected selection clears the held file.
handleFileUpload_ClearOnReject(selection) ==
  /\ route = "/generate"
  /\ IF IsNull(selection)
     THEN UNCHANGED <<generator, toast>>
     ELSE IF FileTooLarge(Val(selection))
     THEN toast' = FileTooLargeToast /\ generator' = [generator EXCEPT !.file = None]
     ELSE IF InvalidFileType(Val(selection))
     THEN toast' = InvalidFileTypeToast /\ generator' = [generator EXCEPT !.file = None]
     ELSE generator' = [generator EXCEPT !.file = selection] /\ UNCHANGED toast
  /\ UNCHANGED <<route, trendsViewer, analyzer, committed, chains, mountEffect,
                 nActions, nRequests, okLog, delivered>>

\* onChange of the file input; selection is event.target.files?.[0].
handleFileUpload(selection) ==
  /\ route = "/generate"
  /\ IF IsNull(selection)
     THEN UNCHANGED <<generator, toast>>
     ELSE IF FileTooLarge(Val(selection))
     THEN toast' = FileTooLargeToast /\ UNCHANGED generator
     ELSE IF InvalidFileType(Val(selection))
     THEN toast' = InvalidFileTypeToast /\ UNCHANGED generator
     ELSE generator' = [generator EXCEPT !.file = selection] /\ UNCHANGED toast
  /\ UNCHANGED <<route, trendsViewer, analyzer, committed, chains, mountEffect,
                 nActions, nRequests, okLog, delivered>>

\* The "Remove file" button, rendered only while the committed file is set.
removeFile ==
  /\ route = "/generate"
  /\ ~IsNull(committed.file)
  /\ generator' = [generator EXCEPT !.file = None]
  /\ UNCHANGED <<route, trendsViewer, analyzer, committed, chains, mountEffect,
                 toast, nActions, nRequests, okLog, delivered>>

\* A chain of handleGenerate suspended at its first or its second await.
GenerateChain(id, pc, prompt, file, fileData) ==
  [id |-> id, op |-> "generate", pc |-> pc, prompt |-> prompt, file |-> file,
   fileData |-> fileData]

\* Click on Generate (disabled while the committed isLoading is true):
\* handleGenerate up to its first await.
handleGenerate ==
  /\ route = "/generate"
  /\ ~committed.isLoading
  /\ nActions < MaxActions
  /\ nActions' = nActions + 1
  /\ IF IsBlank(committed.prompt)
     THEN /\ toast' = PromptRequiredToast
          /\ UNCHANGED <<generator, chains, nRequests>>
     ELSE /\ generator' = [generator EXCEPT !.isLoading = TRUE]
          /\ IF ~IsNull(committed.file)
             THEN /\ chains' = chains \cup
                       {GenerateChain(nActions + 1, "fileRead", committed.prompt,
                                      committed.file, None)}
                  /\ UNCHANGED nRequests
             ELSE /\ chains' = chains \cup
                       {GenerateChain(nActions + 1, "request", committed.prompt,
                                      None, None)}
                  /\ nRequests' = nRequests + 1
          /\ UNCHANGED toast
  /\ UNCHANGED <<route, trendsViewer, analyzer, committed, mountEffect, okLog,
                 delivered>>

\* Mutant of fileReadResolved: the request is built from the prompt and the
\* file held when the read completes.
fileReadResolved_CurrentState(c) ==
  /\ c.op = "generate" /\ c.pc = "fileRead"
  /\ chains' = (chains \ {c}) \cup
       {GenerateChain(c.id, "request", generator.prompt, generator.file,
                      IF IsNull(generator.file) THEN None
                      ELSE Some(fileToBase64(Val(generator.file))))}
  /\ nRequests' = nRequests + 1
  /\ UNCHANGED <<route, generator, trendsViewer, analyzer, committed, mountEffect,
                 toast, nActions, okLog, delivered>>

\* reader.onload: fileToBase64 resolves and contentApi.generate is called.
fileReadResolved(c) ==
  /\ c.op = "generate" /\ c.pc = "fileRead"
  /\ chains' = (chains \ {c}) \cup
       {GenerateChain(c.id, "request", c.prompt, c.file,
                      Some(fileToBase64(Val(c.file))))}
  /\ nRequests' = nRequests + 1
  /\ UNCHANGED <<route, generator, trendsViewer, analyzer, committed, mountEffect,
                 toast, nActions, okLog, delivered>>

\* Mutant of generateCatch: the finally block left out.
generateCatch_NoFinally(c, error) ==
  /\ toast' = GenerationFailedToast(error)
  /\ chains' = chains \ {c}
  /\ UNCHANGED <<route, generator, trendsViewer, analyzer, committed, mountEffect,
                 nActions, nRequests, okLog, delivered>>

\* The catch and finally blocks of handleGenerate.
generateCatch(c, error) ==
  /\ toast' = GenerationFailedToast(error)
  /\ generator' = [generator EXCEPT !.isLoading = FALSE]
  /\ chains' = chains \ {c}
  /\ UNCHANGED <<route, trendsViewer, analyzer, committed, mountEffect,
                 nActions, nRequests, okLog, delivered>>

\* Mutant of fileReadRejected: the request is sent without the file's data.
fileReadRejected_SendAnyway(c) ==
  /\ c.op = "generate" /\ c.pc = "fileRead"
  /\ chains' = (chains \ {c}) \cup
       {GenerateChain(c.id, "request", c.prompt, c.file, None)}
  /\ nRequests' = nRequests + 1
  /\ UNCHANGED <<route, generator, trendsViewer, analyzer, committed, mountEffect,
                 toast, nActions, okLog, delivered>>

\* reader.onerror: fileToBase64 rejects.
fileReadRejected(c) ==
  /\ c.op = "generate" /\ c.pc = "fileRead"
  /\ generateCatch(c, FileReadError)

\* Mutant of generateRejected: a failed request is sent again, once.
generateRejected_Retry(c, error) ==
  /\ c.op = "generate" /\ c.pc = "request"
  /\ IF nRequests <= nActions
     THEN /\ nRequests' = nRequests + 1
          /\ UNCHANGED <<route, generator, trendsViewer, analyzer, committed,
                         chains, mountEffect, toast, nActions, okLog, delivered>>
     ELSE generateCatch(c, error)

\* contentApi.generate rejects.
generateRejected(c, error) ==
  /\ c.op = "generate" /\ c.pc = "request"
  /\ generateCatch(c, error)

\* Mutant of generateResolved: a response is shown only if its chain is the
\* one submitted last (stale responses are dropped).
generateResolved_Fenced(c, response) ==
  /\ c.op = "generate" /\ c.pc = "request"
  /\ generator' = IF c.id = nActions
                  THEN [generator EXCEPT !.generatedContent = response.content,
                                         !.imageUrl = response.image_url,
                                         !.isLoading = FALSE]
                  ELSE [generator EXCEPT !.isLoading = FALSE]
  /\ toast' = GeneratedToast
  /\ chains' = chains \ {c}
  /\ okLog' = Append(okLog, c.id)
  /\ delivered' = Some(response)
  /\ UNCHANGED <<route, trendsViewer, analyzer, committed, mountEffect,
                 nActions, nRequests>>

\* Mutant of generateResolved: the finally block left out.
generateResolved_NoFinally(c, response) ==
  /\ c.op = "generate" /\ c.pc = "request"
  /\ generator' = [generator EXCEPT !.generatedContent = response.content,
                                    !.imageUrl = response.image_url]
  /\ toast' = GeneratedToast
  /\ chains' = chains \ {c}
  /\ okLog' = Append(okLog, c.id)
  /\ delivered' = Some(response)
  /\ UNCHANGED <<route, trendsViewer, analyzer, committed, mountEffect,
                 nActions, nRequests>>

\* contentApi.generate resolves: the rest of the try block, then finally.
generateResolved(c, response) ==
  /\ c.op = "generate" /\ c.pc = "request"
  /\ generator' = [generator EXCEPT !.generatedContent = response.content,
                                    !.imageUrl = response.image_url,
                                    !.isLoading = FALSE]
  /\ toast' = GeneratedToast
  /\ chains' = chains \ {c}
  /\ okLog' = Append(okLog, c.id)
  /\ delivered' = Some(response)
  /\ UNCHANGED <<route, trendsViewer, analyzer, committed, mountEffect,
                 nActions, nRequests>>

\* What ContentGenerator renders for the state g: the submit control and the
\* "Generated Content" card.
GeneratorView(g) ==
  [submitDisabled |-> g.isLoading,
   busy |-> g.isLoading,
   card |-> IF g.isLoading THEN "spinner"
            ELSE IF g.generatedContent # "" THEN "content"
            ELSE "placeholder",
   text |-> IF ~g.isLoading /\ g.generatedContent # ""
            THEN Some(g.generatedContent) ELSE None,
   image |-> IF ~g.isLoading /\ g.generatedContent # "" /\ ~IsNull(g.imageUrl)
                /\ Val(g.imageUrl) # ""
             THEN g.imageUrl ELSE None]

NextGenerator ==
  \/ \E value \in Texts : setPrompt(value)
  \/ \E f \in SelectableFiles : handleFileUpload(Some(f))
  \/ handleFileUpload(None)
  \/ removeFile
  \/ handleGenerate
  \/ \E c \in chains : fileReadResolved(c)
  \/ \E c \in chains : fileReadRejected(c)
  \/ \E c \in chains : \E response \in GenerateResponses : generateResolved(c, response)
  \/ \E c \in chains : \E error \in RequestErrors : generateRejected(c, error)

(***************************************************************************)
(* Trends view                                                             *)
(***************************************************************************)
TrendsChain(id) == [id |-> id, op |-> "getTrends", pc |-> "request"]

\* Mutant of fetchTrends: setIsLoading(true) left out.
fetchTrends_NoLoading ==
  /\ nActions < MaxActions
  /\ nActions' = nActions + 1
  /\ chains' = chains \cup {TrendsChain(nActions + 1)}
  /\ nRequests' = nRequests + 1
  /\ UNCHANGED <<route, generator, trendsViewer, analyzer, committed, toast,
                 okLog, delivered>>

\* fetchTrends up to its await.
fetchTrends ==
  /\ nActions < MaxActions
  /\ nActions' = nActions + 1
  /\ trendsViewer' = [trendsViewer EXCEPT !.isLoading = TRUE]
  /\ chains' = chains \cup {TrendsChain(nActions + 1)}
  /\ nRequests' = nRequests + 1
  /\ UNCHANGED <<route, generator, analyzer, committed, toast, okLog, delivered>>

\* useEffect(() => { fetchTrends() }, []): runs once, after the first render.
useEffectMount ==
  /\ route = "/trends"
  /\ mountEffect
  /\ mountEffect' = FALSE
  /\ fetchTrends

\* Click on "Refresh Trends" (disabled while the committed isLoading is true).
refreshTrends ==
  /\ route = "/trends"
  /\ ~mountEffect
  /\ ~committed.isLoading
  /\ fetchTrends
  /\ UNCHANGED mountEffect

\* s without the repetitions of its elements.
Distinct(s) ==
  LET F[i \in 0..Len(s)] ==
        IF i = 0 THEN <<>>
        ELSE IF \E j \in 1..(i - 1) : s[j] = s[i] THEN F[i - 1]
        ELSE Append(F[i - 1], s[i])
  IN F[Len(s)]

\* Mutant of trendsResolved: repeated trends are dropped before they are stored.
trendsResolved_Distinct(c, response) ==
  /\ c.op = "getTrends" /\ c.pc = "request"
  /\ trendsViewer' = [trends |-> Distinct(response.trends), isLoading |-> FALSE]
  /\ toast' = TrendsUpdatedToast(response)
  /\ chains' = chains \ {c}
  /\ okLog' = Append(okLog, c.id)
  /\ delivered' = Some(response)
  /\ UNCHANGED <<route, generator, analyzer, committed, mountEffect, nActions,
                 nRequests>>

\* trendsApi.getTrends resolves: the rest of the try block, then finally.
trendsResolved(c, response) ==
  /\ c.op = "getTrends" /\ c.pc = "request"
  /\ trendsViewer' = [trends |-> response.trends, isLoading |-> FALSE]
  /\ toast' = TrendsUpdatedToast(response)
  /\ chains' = chains \ {c}
  /\ okLog' = Append(okLog, c.id)
  /\ delivered' = Some(response)
  /\ UNCHANGED <<route, generator, analyzer, committed, mountEffect, nActions,
                 nRequests>>

\* Mutant of trendsRejected: the finally block left out.
trendsRejected_NoFinally(c) ==
  /\ c.op = "getTrends" /\ c.pc = "request"
  /\ toast' = TrendsFailedToast
  /\ chains' = chains \ {c}
  /\ UNCHANGED <<route, generator, trendsViewer, analyzer, committed, mountEffect,
                 nActions, nRequests, okLog, delivered>>

\* trendsApi.getTrends rejects: catch, then finally.
trendsRejected(c) ==
  /\ c.op = "getTrends" /\ c.pc = "request"
  /\ trendsViewer' = [trendsViewer EXCEPT !.isLoading = FALSE]
  /\ toast' = TrendsFailedToast
  /\ chains' = chains \ {c}
  /\ UNCHANGED <<route, generator, analyzer, committed, mountEffect, nActions,
                 nRequests, okLog, delivered>>

\* Mutant of TrendsViewer's rendering: the grid is chosen for an empty list too.
TrendsView_GridWhenEmpty(t) ==
  [refreshDisabled |-> t.isLoading,
   body |-> IF t.isLoading THEN "spinner"
            ELSE IF Len(t.trends) >= 0 THEN "grid"
            ELSE "placeholder",
   cards |-> IF ~t.isLoading /\ Len(t.trends) >= 0 THEN t.trends ELSE <<>>]

\* What TrendsViewer renders for the state t.
TrendsView(t) ==
  [refreshDisabled |-> t.isLoading,
   body |-> IF t.isLoading THEN "spinner"
            ELSE IF Len(t.trends) > 0 THEN "grid"
            ELSE "placeholder",
   cards |-> IF ~t.isLoading /\ Len(t.trends) > 0 THEN t.trends ELSE <<>>]

NextTrends ==
  \/ useEffectMount
  \/ refreshTrends
  \/ \E c \in chains : \E response \in TrendsResponses : trendsResolved(c, response)
  \/ \E c \in chains : trendsRejected(c)

(***************************************************************************)
(* Sentiment view                                                          *)
(***************************************************************************)
\* onChange of the content Textarea: setContent(e.target.value).
setContent(value) ==
  /\ route = "/analyze"
  /\ analyzer' = [analyzer EXCEPT !.content = value]
  /\ UNCHANGED <<route, generator, trendsViewer, committed, chains, mountEffect,
                 toast, nActions, nRequests, okLog, delivered>>

AnalyzeChain(id, content) ==
  [id |-> id, op |-> "analyze", pc |-> "request", content |-> content]

\* Click on Analyze (disabled while the committed isLoading is true):
\* handleAnalyze up to its await.
handleAnalyze ==
  /\ route = "/analyze"
  /\ ~committed.isLoading
  /\ nActions < MaxActions
  /\ nActions' = nActions + 1
  /\ IF IsBlank(committed.content)
     THEN /\ toast' = ContentRequiredToast
          /\ UNCHANGED <<analyzer, chains, nRequests>>
     ELSE /\ analyzer' = [analyzer EXCEPT !.isLoading = TRUE]
          /\ chains' = chains \cup {AnalyzeChain(nActions + 1, committed.content)}
          /\ nRequests' = nRequests + 1
          /\ UNCHANGED toast
  /\ UNCHANGED <<route, generator, trendsViewer, committed, mountEffect, okLog,
                 delivered>>

\* Mutant of analyzeResolved: the label is stored only for the chain submitted
\* last, the score for every chain.
analyzeResolved_StaleLabel(c, response) ==
  /\ c.op = "analyze" /\ c.pc = "request"
  /\ analyzer' = IF c.id = nActions
                 THEN [analyzer EXCEPT !.sentiment = Some(response.sentiment),
                                       !.sentimentLabel = Some(response.sentiment_label),
                                       !.isLoading = FALSE]
                 ELSE [analyzer EXCEPT !.sentiment = Some(response.sentiment),
                                       !.isLoading = FALSE]
  /\ toast' = AnalysisCompleteToast(response)
  /\ chains' = chains \ {c}
  /\ okLog' = Append(okLog, c.id)
  /\ delivered' = Some(response)
  /\ UNCHANGED <<route, generator, trendsViewer, committed, mountEffect, nActions,
                 nRequests>>

\* analysisApi.analyze resolves: the rest of the try block, then finally.
analyzeResolved(c, response) ==
  /\ c.op = "analyze" /\ c.pc = "request"
  /\ analyzer' = [analyzer EXCEPT !.sentiment = Some(response.sentiment),
                                  !.sentimentLabel = Some(response.sentiment_label),
                                  !.isLoading = FALSE]
  /\ toast' = AnalysisCompleteToast(response)
  /\ chains' = chains \ {c}
  /\ okLog' = Append(okLog, c.id)
  /\ delivered' = Some(response)
  /\ UNCHANGED <<route, generator, trendsViewer, committed, mountEffect, nActions,
                 nRequests>>

\* analysisApi.analyze rejects: catch, then finally.
analyzeRejected(c) ==
  /\ c.op = "analyze" /\ c.pc = "request"
  /\ analyzer' = [analyzer EXCEPT !.isLoading = FALSE]
  /\ toast' = AnalysisFailedToast
  /\ chains' = chains \ {c}
  /\ UNCHANGED <<route, generator, trendsViewer, committed, mountEffect, nActions,
                 nRequests, okLog, delivered>>

\* getSentimentColor: the badge's classes for a label.
getSentimentColor(label) ==
  IF label = Some("positive") THEN "bg-green-500 text-white"
  ELSE IF label = Some("negative") THEN "bg-red-500 text-white"
  ELSE IF label = Some("neutral") THEN "bg-gray-500 text-white"
  ELSE "bg-gray-500 text-white"

\* Mutant of getSentimentProgress: the shift by one left out.
getSentimentProgress_NoShift(score) ==
  IF IsNull(score) THEN 50
  ELSE (Val(score) * 100) \div (2 * One)

\* getSentimentProgress: ((score + 1) / 2) * 100, the score in units of 1/One.
getSentimentProgress(score) ==
  IF IsNull(score) THEN 50
  ELSE ((Val(score) + One) * 100) \div (2 * One)

\* The progress bar's colour class.
BarColor(label) ==
  IF label = Some("positive") THEN "bg-green-500"
  ELSE IF label = Some("negative") THEN "bg-red-500"
  ELSE "bg-gray-500"

\* sentimentLabel.charAt(0).toUpperCase() + sentimentLabel.slice(1), on the
\* labels of AnalyzeResponses.
Capitalize(s) ==
  CASE s = "positive" -> "Positive"
    [] s = "negative" -> "Negative"
    [] s = "neutral" -> "Neutral"
    [] s = "mixed" -> "Mixed"
    [] OTHER -> s

\* Mutant of AnalyzerView: colour and label text re-derived from the score.
AnalyzerView_ByScore(a) ==
  LET sign == IF IsNull(a.sentiment) THEN 0 ELSE Val(a.sentiment)
  IN [submitDisabled |-> a.isLoading,
      card |-> IF a.isLoading THEN "spinner"
               ELSE IF ~IsNull(a.sentiment) /\ ~IsNull(a.sentimentLabel)
                       /\ Val(a.sentimentLabel) # ""
               THEN "result"
               ELSE "placeholder",
      badge |-> IF sign > 0 THEN "bg-green-500 text-white"
                ELSE IF sign < 0 THEN "bg-red-500 text-white"
                ELSE "bg-gray-500 text-white",
      badgeText |-> IF sign > 0 THEN "Positive"
                    ELSE IF sign < 0 THEN "Negative" ELSE "Neutral",
      bar |-> IF sign > 0 THEN "bg-green-500"
              ELSE IF sign < 0 THEN "bg-red-500" ELSE "bg-gray-500",
      width |-> getSentimentProgress(a.sentiment)]

\* What SentimentAnalyzer renders for the state a: the submit control and the
\* "Analysis Results" card.
AnalyzerView(a) ==
  [submitDisabled |-> a.isLoading,
   card |-> IF a.isLoading THEN "spinner"
            ELSE IF ~IsNull(a.sentiment) /\ ~IsNull(a.sentimentLabel)
                    /\ Val(a.sentimentLabel) # ""
            THEN "result"
            ELSE "placeholder",
   badge |-> getSentimentColor(a.sentimentLabel),
   badgeText |-> IF IsNull(a.sentimentLabel) THEN ""
                 ELSE Capitalize(Val(a.sentimentLabel)),
   bar |-> BarColor(a.sentimentLabel),
   width |-> getSentimentProgress(a.sentiment)]

NextAnalyzer ==
  \/ \E value \in Texts : setContent(value)
  \/ handleAnalyze
  \/ \E c \in chains : \E response \in AnalyzeResponses : analyzeResolved(c, response)
  \/ \E c \in chains : analyzeRejected(c)

(***************************************************************************)
(* The client                                                              *)
(***************************************************************************)
Next ==
  \/ Render
  \/ NextGenerator
  \/ NextTrends
  \/ NextAnalyzer

Spec == Init /\ [][Next]_vars

\* The promise the chain numbered id awaits settles, either way (a settled
\* request takes its chain out of chains).
chainSettles(id) ==
  \E c \in chains :
    /\ c.id = id
    /\ \/ /\ c.op = "generate" /\ c.pc = "fileRead"
          /\ fileReadResolved(c) \/ fileReadRejected(c)
       \/ /\ c.op = "generate" /\ c.pc = "request"
          /\ chains' = chains \ {c}
          /\ \/ \E response \in GenerateResponses : generateResolved(c, response)
             \/ \E error \in RequestErrors : generateRejected(c, error)
       \/ /\ c.op = "getTrends"
          /\ chains' = chains \ {c}
          /\ \/ \E response \in TrendsResponses : trendsResolved(c, response)
             \/ trendsRejected(c)
       \/ /\ c.op = "analyze"
          /\ chains' = chains \ {c}
          /\ \/ \E response \in AnalyzeResponses : analyzeResolved(c, response)
             \/ analyzeRejected(c)

\* The behaviours in which React runs the mount effect.
MountSpec == Spec /\ WF_vars(useEffectMount)

\* The behaviours in which every awaited file read and request settles.
FairSpec == Spec /\ \A id \in 1..MaxActions : WF_vars(chainSettles(id))

(***************************************************************************)
(* Properties                                                              *)
(***************************************************************************)
\* Text that is empty or holds only whitespace.
OnlyWhiteSpace(s) == \A i \in 1..Len(s) : s[i] \in {" ", "\t", "\n"}

TheFile == [name |-> "a.csv", size |-> 5242880, type |-> "text/csv"]

\* A chain ended in this step with a failure notification.
ChainFailed ==
  /\ \E c \in chains : chains' = chains \ {c}
  /\ toast'.title \in {"Generation failed", "Failed to fetch trends", "Analysis failed"}

\* C1: in the generation view and in the sentiment view, a submit whose text
\* (as the handler sees it) is empty or whitespace only issues no request,
\* starts no chain, leaves isLoading and the rest of the view's state as they
\* were, and only shows the "required" notification.
C1_BlankSubmitBlocked ==
  [][ /\ (route = "/generate" /\ nActions' = nActions + 1
            /\ OnlyWhiteSpace(committed.prompt))
         => /\ nRequests' = nRequests /\ chains' = chains
            /\ generator' = generator
            /\ toast' = PromptRequiredToast
      /\ (route = "/analyze" /\ nActions' = nActions + 1
            /\ OnlyWhiteSpace(committed.content))
         => /\ nRequests' = nRequests /\ chains' = chains
            /\ analyzer' = analyzer
            /\ toast' = ContentRequiredToast ]_vars

\* A whitespace-only prompt was submitted with a file held: nothing was sent.
C1_Witness ==
  /\ route = "/generate"
  /\ toast = PromptRequiredToast
  /\ committed.prompt = <<" ", "\n">>
  /\ generator.file = Some(TheFile)
  /\ nActions = 1 /\ nRequests = 0 /\ chains = {}
  /\ ~generator.isLoading

\* C2: selecting a file larger than 5 MiB, or of a type other than text/csv,
\* application/pdf and application/vnd.ms-excel, is rejected: the held file
\* stays as it was, a destructive notification is shown, and the selection
\* issues no request and starts no chain.
C2_BadFileRejected ==
  [][ \A f \in SelectableFiles :
        ( /\ handleFileUpload(Some(f))
          /\ \/ f.size > 5242880
             \/ f.type \notin {"text/csv", "application/pdf",
                               "application/vnd.ms-excel"} )
        => /\ generator' = generator
           /\ toast'.variant = "destructive"
           /\ nRequests' = nRequests
           /\ chains' = chains ]_vars

\* A selection was rejected and nothing has been sent.
C2_Witness ==
  /\ toast \in {FileTooLargeToast, InvalidFileTypeToast}
  /\ nRequests = 0
  /\ chains = {}

\* C3: the held file, the file the handlers see, the file of every chain and
\* the data every generate request carries are of an allowed type and of at
\* most 5 MiB.
C3_HeldFileValid ==
  LET Ok(size, type) ==
        /\ size <= 5242880
        /\ type \in {"text/csv", "application/pdf", "application/vnd.ms-excel"}
  IN /\ ~IsNull(generator.file)
          => Ok(Val(generator.file).size, Val(generator.file).type)
     /\ ~IsNull(committed.file)
          => Ok(Val(committed.file).size, Val(committed.file).type)
     /\ \A c \in chains :
          c.op = "generate" =>
            /\ ~IsNull(c.file) => Ok(Val(c.file).size, Val(c.file).type)
            /\ ~IsNull(c.fileData)
                 => Ok(Val(c.fileData).nBytes, Val(c.fileData).mediatype)

\* A generate request that carries a file is in flight.
C3_Witness ==
  \E c \in chains :
    /\ c.op = "generate" /\ c.pc = "request"
    /\ ~IsNull(c.fileData)
    /\ Val(c.fileData).bytesOf = "a.csv"

\* C4: a generation chain that fails shows "Generation failed" with the
\* cannot-connect text when the failure is a network-level error and with the
\* generic text for every other failure (HTTP status, malformed response,
\* file read).
C4_FailureMessage ==
  [][ /\ \A c \in chains : \A e \in RequestErrors :
           generateRejected(c, e)
           => /\ toast'.title = "Generation failed"
              /\ toast'.description =
                   IF e.kind = "network"
                   THEN "Cannot connect to backend. Make sure FastAPI server is running on localhost:8000"
                   ELSE "Failed to generate content. Please try again."
      /\ \A c \in chains :
           fileReadRejected(c)
           => /\ toast'.title = "Generation failed"
              /\ toast'.description = "Failed to generate content. Please try again."
    ]_vars

\* A failure was reported as a connection failure.
C4_Witness ==
  /\ toast.title = "Generation failed"
  /\ toast.description = CannotConnect
  /\ chains = {}

C6_LastResolvedWins ==
  (route = "/generate" /\ ~IsNull(delivered))
  => /\ generator.generatedContent = Val(delivered).content
     /\ generator.imageUrl = Val(delivered).image_url

\* Two chains overlapped, the one submitted second resolved first, the one
\* submitted first resolved last, and its response is the one held.
C6_Witness ==
  /\ route = "/generate"
  /\ okLog = <<2, 1>>
  /\ chains = {}
  /\ generator.generatedContent = Val(delivered).content
  /\ generator.imageUrl = Val(delivered).image_url
  /\ generator.generatedContent = "Get fit today!"

\* C7 (as claimed): while a generate request is unresolved the view is in
\* Submitting: isLoading is true, the submit control is disabled and the busy
\* indicator is shown.  A request that never resolves is unresolved in every
\* later state, so the claim holds exactly when this does in every reachable
\* state.
C7_PendingKeepsSubmitting ==
  \A c \in chains :
    (c.op = "generate" /\ c.pc = "request")
    => /\ generator.isLoading
       /\ GeneratorView(generator).submitDisabled
       /\ GeneratorView(generator).card = "spinner"

\* C8: every request was asked for by a user action of its own: the requests
\* issued so far, and the ones the pending file reads will still issue, are
\* no more than the user actions (submit, refresh, mount) so far.
C8_NoRetry ==
  nRequests + Cardinality({c \in chains : c.pc = "fileRead"}) <= nActions

\* A request failed, and no other request followed it.
C8_Witness ==
  /\ toast.variant = "destructive"
  /\ toast.title \in {"Generation failed", "Failed to fetch trends", "Analysis failed"}
  /\ nActions = 1 /\ nRequests = 1 /\ chains = {}

\* C9 (as claimed): once a generate chain has resolved with a response and no
\* chain is in flight, the view shows the content card with the returned
\* content, and the image whenever the returned image_url is not null.
C9_ResponseDisplayed ==
  (route = "/generate" /\ chains = {} /\ ~IsNull(delivered))
  => /\ GeneratorView(generator).card = "content"
     /\ GeneratorView(generator).text = Some(Val(delivered).content)
     /\ ~IsNull(Val(delivered).image_url)
          => GeneratorView(generator).image = Val(delivered).image_url

\* The mapping at the named scores, and its strict growth over [-1, 1].
ProgressMapping ==
  /\ getSentimentProgress(Some(-10)) = 0
  /\ getSentimentProgress(Some(0)) = 50
  /\ getSentimentProgress(Some(8)) = 90
  /\ getSentimentProgress(Some(10)) = 100
  /\ \A s1, s2 \in -10..10 :
       s1 < s2 => getSentimentProgress(Some(s1)) < getSentimentProgress(Some(s2))

\* C10: the progress width is (score + 1) / 2 * 100 of the held score: 0 for
\* -1, 50 for 0, 90 for 0.8, 100 for +1, and strictly increasing in the score.
C10_Progress ==
  /\ ProgressMapping
  /\ ~IsNull(analyzer.sentiment)
       => AnalyzerView(analyzer).width * 20 = (Val(analyzer.sentiment) + 10) * 100

\* The response {sentiment: 0.8, sentiment_label: "positive"} is displayed at 90%.
C10_Witness ==
  /\ route = "/analyze"
  /\ analyzer.sentiment = Some(8)
  /\ analyzer.sentimentLabel = Some("positive")
  /\ AnalyzerView(analyzer).card = "result"
  /\ AnalyzerView(analyzer).width = 90

\* C11 (as claimed): the progress width shown for the held score lies within
\* [0, 100].
C11_ProgressInRange ==
  ~IsNull(analyzer.sentiment)
  => /\ AnalyzerView(analyzer).width >= 0
     /\ AnalyzerView(analyzer).width <= 100

\* The analyzer's state while it holds the response {sentiment, sentiment_label}.
Holding(score, label) ==
  [content |-> <<>>, sentiment |-> Some(score), sentimentLabel |-> Some(label),
   isLoading |-> FALSE]

\* Two responses with the same label and any two scores are rendered with the
\* same badge colour, badge text and bar colour.
LabelDecides ==
  \A label \in {"positive", "negative", "neutral", "mixed"} :
    \A s1, s2 \in {-10, 0, 8, 10, 15} :
      /\ AnalyzerView(Holding(s1, label)).badge = AnalyzerView(Holding(s2, label)).badge
      /\ AnalyzerView(Holding(s1, label)).badgeText
           = AnalyzerView(Holding(s2, label)).badgeText
      /\ AnalyzerView(Holding(s1, label)).bar = AnalyzerView(Holding(s2, label)).bar

\* C12: colour and label text of the sentiment view come from sentiment_label
\* alone, whatever the score: positive is green, negative is red, neutral is
\* gray.
C12_LabelDecidesColour ==
  /\ LabelDecides
  /\ ~IsNull(analyzer.sentimentLabel)
     => LET v == AnalyzerView(analyzer)
            label == Val(analyzer.sentimentLabel)
        IN /\ label = "positive"
                => /\ v.badge = "bg-green-500 text-white"
                   /\ v.bar = "bg-green-500" /\ v.badgeText = "Positive"
           /\ label = "negative"
                => /\ v.badge = "bg-red-500 text-white"
                   /\ v.bar = "bg-red-500" /\ v.badgeText = "Negative"
           /\ label = "neutral"
                => /\ v.badge = "bg-gray-500 text-white"
                   /\ v.bar = "bg-gray-500" /\ v.badgeText = "Neutral"

\* The response {sentiment: -1, sentiment_label: "positive"}, whose score
\* contradicts its label, is displayed green.
C12_Witness ==
  /\ route = "/analyze"
  /\ analyzer.sentiment = Some(-10)
  /\ analyzer.sentimentLabel = Some("positive")
  /\ AnalyzerView(analyzer).card = "result"
  /\ AnalyzerView(analyzer).badge = "bg-green-500 text-white"

\* C13 (as claimed): once an analysis has resolved with a label other than
\* positive, negative and neutral, and no chain is in flight, the view shows
\* the result card, in gray.
C13_UnknownLabelNeutral ==
  ( /\ route = "/analyze" /\ chains = {} /\ ~IsNull(delivered)
    /\ Val(delivered).sentiment_label \notin {"positive", "negative", "neutral"} )
  => /\ AnalyzerView(analyzer).card = "result"
     /\ AnalyzerView(analyzer).badge = "bg-gray-500 text-white"
     /\ AnalyzerView(analyzer).bar = "bg-gray-500"

\* C14: the trends view shows one of the spinner, the card grid and the
\* "no trends" placeholder: the spinner exactly while loading, the grid only
\* with at least one card; once getTrends has resolved with an empty list and
\* no fetch is in flight, it shows the placeholder.
C14_OneOfThree ==
  route = "/trends"
  => LET v == TrendsView(trendsViewer)
     IN /\ v.body \in {"spinner", "grid", "placeholder"}
        /\ v.body = "spinner" <=> trendsViewer.isLoading
        /\ v.body = "grid" <=> Len(v.cards) > 0
        /\ ( /\ chains = {} /\ ~IsNull(delivered)
             /\ Val(delivered).trends = <<>> )
           => v.body = "placeholder"

\* getTrends has resolved with an empty list, nothing is in flight and the
\* placeholder is shown.
C14_Witness ==
  /\ route = "/trends"
  /\ chains = {}
  /\ delivered = Some([trends |-> <<>>])
  /\ TrendsView(trendsViewer).body = "placeholder"

\* C16: after a successful getTrends the cards shown are the response's trends
\* sequence: same length, same elements, same order, repetitions kept.
C16_CardsAreResponse ==
  (route = "/trends" /\ ~IsNull(delivered) /\ ~trendsViewer.isLoading)
  => TrendsView(trendsViewer).cards = Val(delivered).trends

\* The response <<"Video", "AI", "Video">> is shown as three cards.
C16_Witness ==
  /\ route = "/trends"
  /\ ~trendsViewer.isLoading
  /\ delivered = Some([trends |-> <<"Video", "AI", "Video">>])
  /\ TrendsView(trendsViewer).cards = <<"Video", "AI", "Video">>

\* The chain numbered id is suspended at one of its awaits.
InFlight(id) == \E c \in chains : c.id = id

\* Steps of a chain, in order: it starts from a view rendered as not loading
\* and sets isLoading; while it waits for the request after the file read,
\* isLoading is not touched; when it ends, by success or by failure, it leaves
\* isLoading false and the submit control enabled and shows the outcome.
C18_ChainSteps ==
  chains' # chains
  => /\ \A d \in chains' \ chains :
          ~InFlight(d.id)
          => /\ ~committed.isLoading
             /\ MountedIsLoading(route, generator, trendsViewer, analyzer)'
     /\ \A c \in chains \ chains' :
          IF InFlight(c.id)'
          THEN /\ c.pc = "fileRead"
               /\ \A d \in chains' \ chains : d.pc = "request"
               /\ UNCHANGED generator
          ELSE /\ ~MountedIsLoading(route, generator, trendsViewer, analyzer)'
               /\ ~GeneratorView(generator).submitDisabled'
               /\ toast'.title \in
                    {"Content generated successfully", "Generation failed",
                     "Trends updated", "Failed to fetch trends",
                     "Analysis complete", "Analysis failed"}

\* C18: a submission that passed validation, and whose file read and request
\* settle, reaches Success or Failed (no chain stays in flight for ever);
\* that step leaves isLoading false and the submit control enabled; each chain
\* goes from not loading to loading and then to its outcome.
C18_SubmissionSettles ==
  /\ [][C18_ChainSteps]_vars
  /\ \A id \in 1..MaxActions : []<>~InFlight(id)

\* A submission with a held file has gone through the read and the request to
\* Success, and the view is ready for the next one.
C18_Witness ==
  /\ route = "/generate"
  /\ ~IsNull(generator.file)
  /\ okLog = <<1>>
  /\ chains = {}
  /\ toast = GeneratedToast
  /\ ~generator.isLoading
  /\ ~GeneratorView(generator).submitDisabled

\* Steps of the trends view: from the mounted view the one possible step is
\* the mount effect's fetch; the mount effect and each refresh issue one
\* getTrends request, start its chain and set isLoading, leaving the list as
\* it is; no fetch starts from a view rendered as loading.
C15_FetchSteps ==
  route = "/trends"
  => /\ mountEffect => (~mountEffect' /\ nActions' = nActions + 1)
     /\ nActions' # nActions
          => /\ nRequests' = nRequests + 1
             /\ chains' = chains \cup {TrendsChain(nActions')}
             /\ TrendsChain(nActions') \notin chains
             /\ trendsViewer'.isLoading
             /\ trendsViewer'.trends = trendsViewer.trends
     /\ committed.isLoading => nActions' = nActions

\* C15: mounting the trends view starts a getTrends fetch with no user action,
\* and each refresh starts the same fetch; while loading, the refresh control
\* is disabled and the spinner stands in place of the content.
C15_MountAndRefreshFetch ==
  /\ [](route = "/trends" /\ mountEffect => nActions = 0 /\ chains = {})
  /\ [][C15_FetchSteps]_vars
  /\ []<>(route = "/trends" => nRequests >= 1)
  /\ []((route = "/trends" /\ trendsViewer.isLoading)
        => /\ TrendsView(trendsViewer).refreshDisabled
           /\ TrendsView(trendsViewer).body = "spinner"
           /\ TrendsView(trendsViewer).cards = <<>>)

\* A refresh after the mount fetch is in flight: two requests issued, the
\* spinner shown, the refresh control disabled.
C15_Witness ==
  /\ route = "/trends"
  /\ nActions = 2 /\ nRequests = 2
  /\ TrendsChain(2) \in chains
  /\ trendsViewer.isLoading
  /\ TrendsView(trendsViewer).body = "spinner"
  /\ TrendsView(trendsViewer).refreshDisabled

\* A generation chain waiting for its file read holds a file and no data yet;
\* one waiting for its request with a file carries that file's encoding.
C17_RequestCarriesEncoding ==
  \A c \in chains :
    c.op = "generate"
    => /\ c.pc = "fileRead" => (~IsNull(c.file) /\ IsNull(c.fileData))
       /\ (c.pc = "request" /\ IsNull(c.file)) => IsNull(c.fileData)
       /\ (c.pc = "request" /\ ~IsNull(c.file))
            => c.fileData = Some([mediatype |-> Val(c.file).type,
                                  encoding |-> "base64",
                                  bytesOf |-> Val(c.file).name,
                                  nBytes |-> Val(c.file).size])

\* Steps of a generation chain with a file: the submit issues no request; the
\* request is issued by the step that completes the read; a failed read issues
\* none and ends the chain as Failed with isLoading false.
C17_ReadThenRequest ==
  route = "/generate"
  => /\ \A c \in chains' \ chains :
          /\ c.pc = "fileRead" => nRequests' = nRequests
          /\ (c.pc = "request" /\ ~IsNull(c.file))
               => /\ GenerateChain(c.id, "fileRead", c.prompt, c.file, None) \in chains
                  /\ nRequests' = nRequests + 1
     /\ \A c \in chains \ chains' :
          c.pc = "fileRead"
          => \/ \E d \in chains' \ chains : d.id = c.id /\ d.pc = "request"
             \/ /\ nRequests' = nRequests
                /\ ~generator'.isLoading
                /\ ~GeneratorView(generator').submitDisabled
                /\ toast' = Toast("Generation failed", FailedToGenerate, "destructive")

\* C17: with a held file the request is issued only after the file's read has
\* completed and carries the encoded result; if the read fails no request is
\* issued and the chain ends as Failed, after which a submission can proceed.
C17_FileReadBeforeRequest ==
  /\ []C17_RequestCarriesEncoding
  /\ [][C17_ReadThenRequest]_vars

\* The first submission's read failed (no request, failure shown); the second
\* one has read its file and its request, the only one issued, is in flight.
C17_Witness ==
  /\ route = "/generate"
  /\ nActions = 2 /\ nRequests = 1
  /\ okLog = <<>>
  /\ toast = Toast("Generation failed", FailedToGenerate, "destructive")
  /\ \E c \in chains :
       /\ chains = {c}
       /\ c.id = 2 /\ c.pc = "request"
       /\ c.fileData = Some(fileToBase64(Val(c.file)))

\* C19: whenever no chain of the mounted view is in flight, that view's
\* isLoading is false, overlapping chains included (the other two views are
\* not mounted and never load).
C19_IdleNotLoading ==
  chains = {}
  => /\ ~generator.isLoading
     /\ ~trendsViewer.isLoading
     /\ ~analyzer.isLoading
     /\ ~MountedIsLoading(route, generator, trendsViewer, analyzer)

\* Two trends fetches overlapped, the second failed and then the first
\* resolved; nothing is in flight and the view is not loading.
C19_Witness ==
  /\ route = "/trends"
  /\ nActions = 2
  /\ okLog = <<1>>
  /\ toast.title = "Trends updated"
  /\ chains = {}
  /\ ~trendsViewer.isLoading
  /\ committed.isLoading

\* C20: the pair (generatedContent, imageUrl) is the initial pair or the pair
\* of one successful generate response, and the pair (sentiment,
\* sentimentLabel) is the initial pair or the pair of one successful analyze
\* response: never the content of one response with the image of another, or
\* the score of one with the label of another.
C20_PairsFromOneResponse ==
  /\ route = "/generate"
       => \/ /\ okLog = <<>>
             /\ <<generator.generatedContent, generator.imageUrl>> = <<"", None>>
          \/ /\ okLog # <<>>
             /\ <<generator.generatedContent, generator.imageUrl>>
                  = <<Val(delivered).content, Val(delivered).image_url>>
  /\ route = "/analyze"
       => \/ /\ okLog = <<>>
             /\ <<analyzer.sentiment, analyzer.sentimentLabel>> = <<None, None>>
          \/ /\ okLog # <<>>
             /\ <<analyzer.sentiment, analyzer.sentimentLabel>>
                  = <<Some(Val(delivered).sentiment),
                      Some(Val(delivered).sentiment_label)>>

\* Two analyses overlapped and resolved in the reverse order; the pair held is
\* that of the response that resolved last.
C20_Witness ==
  /\ route = "/analyze"
  /\ okLog = <<2, 1>>
  /\ delivered = Some([sentiment |-> 8, sentiment_label |-> "negative"])
  /\ analyzer.sentiment = Some(8)
  /\ analyzer.sentimentLabel = Some("negative")

\* Steps that touch the held file: a step that shows a rejection leaves the
\* held file, what the handlers see and the chains as they are; the held file
\* changes only to an accepted selection (within the limit, of an allowed
\* type) or to none by "Remove file", which is offered only while a file is
\* rendered; a submit from an up-to-date render starts its chain with the held
\* file.
C21_FileSteps ==
  route = "/generate"
  => /\ ( /\ toast' # toast
          /\ toast'.title \in {"File too large", "Invalid file type"} )
        => /\ generator'.file = generator.file
           /\ committed'.file = committed.file
           /\ chains' = chains
           /\ nRequests' = nRequests
     /\ generator'.file # generator.file
        => \/ /\ ~IsNull(generator'.file)
              /\ Val(generator'.file) \in SelectableFiles
              /\ Val(generator'.file).size <= MaxFileSize
              /\ Val(generator'.file).type \in allowedTypes
              /\ toast' = toast
           \/ /\ IsNull(generator'.file)
              /\ ~IsNull(committed.file)
              /\ toast' = toast
     /\ \A d \in chains' \ chains :
          (~(\E c \in chains : c.id = d.id) /\ committed.file = generator.file)
          => d.file = generator.file

\* C21: a rejected file selection leaves the held file unchanged, so a file
\* accepted earlier is still held after a later oversized or mistyped
\* selection, and the next submit uploads it; the held file changes only on an
\* accepted selection or on "Remove file".
C21_RejectionKeepsFile ==
  [][C21_FileSteps]_vars

\* a.csv is held, the notification shown last is a rejection, and the one
\* submission made is uploading a.csv.
C21_Witness ==
  /\ route = "/generate"
  /\ ~IsNull(generator.file)
  /\ toast.title \in {"File too large", "Invalid file type"}
  /\ nActions = 1
  /\ \E c \in chains :
       /\ c.pc = "request"
       /\ c.file = generator.file
       /\ c.fileData = Some(fileToBase64(Val(generator.file)))

\* Steps of a generation chain and of the inputs: a chain starts with the
\* prompt and the file its handler saw, which are the held ones when the
\* render is up to date; while it is suspended its prompt and file stay as
\* they are, and the request issued after the read carries that prompt and
\* the encoding of that file; a step that changes the held prompt or file
\* changes no chain.
C22_ChainKeepsInputs ==
  route = "/generate"
  => /\ \A d \in chains' \ chains :
          IF \E c \in chains : c.id = d.id
          THEN \E c \in chains \ chains' :
                 /\ c.id = d.id /\ c.pc = "fileRead" /\ d.pc = "request"
                 /\ d.prompt = c.prompt
                 /\ d.file = c.file
                 /\ d.fileData = Some(fileToBase64(Val(c.file)))
          ELSE /\ d.prompt = committed.prompt
               /\ d.file = committed.file
               /\ IsNull(d.fileData)
               /\ d.pc = IF IsNull(d.file) THEN "request" ELSE "fileRead"
               /\ committed = Snapshot(route, generator, trendsViewer, analyzer)
                    => d.prompt = generator.prompt /\ d.file = generator.file
     /\ ( \/ generator'.prompt # generator.prompt
          \/ generator'.file # generator.file )
        => /\ chains' = chains
           /\ nRequests' = nRequests

\* C22: a generation chain uses the prompt and the held file as they were at
\* its submit: editing the prompt, selecting a file or removing the file while
\* the chain waits for its file read or its request does not change what the
\* chain's request carries.
C22_SubmitTimeInputs ==
  [][C22_ChainKeepsInputs]_vars

\* A request carrying the prompt " b " and the encoding of a.csv is in flight
\* after the prompt was emptied and the file removed, and the view has
\* rendered the new inputs.
C22_Witness ==
  /\ route = "/generate"
  /\ generator.prompt = <<>>
  /\ IsNull(generator.file)
  /\ committed = Snapshot(route, generator, trendsViewer, analyzer)
  /\ \E c \in chains :
       /\ c.pc = "request"
       /\ c.prompt = <<" ", "b", " ">>
       /\ c.fileData = Some([mediatype |-> "text/csv", encoding |-> "base64",
                             bytesOf |-> "a.csv", nBytes |-> MaxFileSize])

====
